---- MODULE Spec2Model ----
(***************************************************************************)
(* pdf2md: the batch scheduling layer.                                     *)
(*                                                                         *)
(*   src/src/batch/task_queue.py       ConversionTask, TaskQueue           *)
(*   src/src/batch/batch_processor.py  BatchProcessor                      *)
(*   src/src/cli.py                    the batch and convert commands      *)
(*   src/src/core/cpu_optimizer.py     AMDCPUOptimizer,                    *)
(*                                     AdvancedMemoryManager               *)
(*   src/src/core/memory_manager.py    MemoryManager                       *)
(*   src/src/utils/system_detector.py  SystemCapabilities, SystemDetector  *)
(*   src/src/core/performance_monitor.py  PerformanceMonitor               *)
(*                                                                         *)
(* Task objects live in `task` (index = object identity, in creation       *)
(* order); the queue's list `_tasks` holds references to them.  A call of  *)
(* BatchProcessor.process() is a coordinator thread (pc) plus the worker   *)
(* threads of its ThreadPoolExecutor; every step between two points where  *)
(* another thread can run is one action.                                   *)
(***************************************************************************)
EXTENDS Integers, Sequences, FiniteSets, TLC

\* ------------------------------------------------------------- bounds
MaxTasks == 2      \* tasks created in a process() scenario
MaxQueued == 2     \* tasks created in a TaskQueue scenario
MaxWorkers == 2    \* largest max_workers a BatchProcessor is built with
MaxEntries == 5    \* entries of a directory given to add_from_directory()
MaxBatch == 9      \* largest current_batch_size given to recommend_batch_size()
MaxDetectors == 2  \* SystemDetector objects created
MaxCalls == 2      \* detect() calls, and get_system_detector() calls
MaxTime == 8       \* seconds a PerformanceMonitor scenario lasts
MaxStarts == 2     \* sampler threads a PerformanceMonitor starts
MaxFailures == 1   \* sampling iterations that raise

\* ------------------------------------------------------------- values
\* Optional[x]: None is the empty tuple, a present value x is <<x>>.
None == <<>>
Some(x) == <<x>>

\* A source path is named by a number: file 1, file 2, ...; a path found by
\* scanning a directory is the directory entry.
Priorities == {0, 5}
TaskStatus == {"pending", "running", "completed", "failed", "skipped"}
Callers == {"c1", "c2"}
PageCounts == {3}

VARIABLES
  task,         \* the ConversionTask objects created so far (by identity)
  _tasks,       \* TaskQueue._tasks: references into task, in insertion order
  clock,        \* the last reading of datetime.now()
  callers,      \* the threads that call process(), each on its own BatchProcessor
  max_workers,  \* BatchProcessor.max_workers
  pc,           \* where each process() call stands
  total_tasks,  \* process(): total_tasks
  completed,    \* process(): completed
  callback,     \* process(): whether a progress_callback was passed
  batch,        \* process(): the list get_pending() returned at line 77
  nsub,         \* process(): how many tasks of batch are submitted
  workq,        \* the executor's work queue: submitted, not yet picked up
  busy,         \* the tasks whose _process_task is running in a worker thread
  fresult,      \* the finished futures' results
  early,        \* futures finished before as_completed() starts, not yet
                \* yielded, in completion order
  doneQ,        \* futures finishing during as_completed(), in completion order
  yielded,      \* futures as_completed() has yielded
  _results,     \* BatchProcessor._results
  ret,          \* what process() returned: "none", "empty" ([]) or "_results"
  calls,        \* the progress_callback invocations, in order
  dispatches,   \* per task: how many times a worker started it
  convlog,      \* per call and task: how its convert() call ended
  at_start,     \* per call: the tasks that were pending when it started
  marking,      \* per worker thread: the mark_* call it is in the middle of
  reader,       \* a thread that reads the queue while the workers run
  directory,    \* the directory an add_from_directory() call is given
  last_call,    \* the last add_from_directory() call and how it ended
  cli,          \* the `pdf2md batch` command: where it stands, what it printed
  virtual_memory, \* what psutil.virtual_memory() reports
  advice,       \* the last call on a memory manager and what it returned
  system,       \* the hardware the planners detect
  config,       \* the last planner call and what it returned
  host,         \* how the accelerator probes end on this machine
  detection,    \* the SystemDetector objects, the global one, the last calls
  monitor       \* a PerformanceMonitor and its sampler threads

qvars == <<task, _tasks, clock>>
pvars == <<callers, max_workers, pc, total_tasks, completed, callback, batch, nsub,
           workq, busy, fresult, early, doneQ, yielded, _results, ret, calls,
           dispatches, convlog, at_start>>
yvars == <<virtual_memory, advice, system, config>>
zvars == <<host, detection, monitor>>
xvars == <<marking, reader, directory, last_call, cli, yvars, zvars>>
vars == <<task, _tasks, clock, callers, max_workers, pc, total_tasks, completed,
          callback, batch, nsub, workq, busy, fresult, early, doneQ, yielded,
          _results, ret, calls, dispatches, convlog, at_start, marking, reader,
          directory, last_call, cli, virtual_memory, advice, system, config,
          host, detection, monitor>>

\* ------------------------------------------------------------- clock
\* datetime.now(): a reading no earlier than the last one (two readings can tie).
\* The clock is read as it stands by the mark_* methods and is let advance when
\* a task is created, which is where the order of the readings matters.
Instants == {0, 1}
Readings == {t \in Instants : t >= clock}
LaterReading == {clock + 1}

\* ------------------------------------------------------------- ConversionTask
NewTask(path, priority, now) ==
  [source_path |-> path, output_dir |-> None, priority |-> priority,
   status |-> "pending",
   error_message |-> None, created_at |-> now, started_at |-> None,
   completed_at |-> None]

mark_started(t, now) ==
  [t EXCEPT !.status = "running", !.started_at = Some(now)]

mark_completed(t, now) ==
  [t EXCEPT !.status = "completed", !.completed_at = Some(now)]

\* Mutant of mark_failed: the failed task is put back in line.
mark_failed_requeue(t, error, now) ==
  [t EXCEPT !.status = "pending", !.error_message = Some(error),
            !.completed_at = Some(now)]

mark_failed(t, error, now) ==
  [t EXCEPT !.status = "failed", !.error_message = Some(error),
            !.completed_at = Some(now)]

mark_skipped(t, reason, now) ==
  [t EXCEPT !.status = "skipped", !.error_message = Some(reason),
            !.completed_at = Some(now)]

\* ------------------------------------------------------------- TaskQueue
\* Mutant of KeyLess: the priority is compared ascending.
KeyLessAscending(a, b) ==
  \/ task[a].priority < task[b].priority
  \/ /\ task[a].priority = task[b].priority
     /\ task[a].created_at < task[b].created_at

\* The sort key of get_pending: (-priority, created_at), compared as tuples.
KeyLess(a, b) ==
  \/ (0 - task[a].priority) < (0 - task[b].priority)
  \/ /\ task[a].priority = task[b].priority
     /\ task[a].created_at < task[b].created_at

\* list.sort is stable: x goes before the first element whose key is greater.
InsertSorted(s, x) ==
  LET after == {i \in 1..Len(s) : KeyLess(x, s[i])}
  IN  IF after = {} THEN Append(s, x)
      ELSE LET k == CHOOSE i \in after : \A j \in after : i <= j
           IN  SubSeq(s, 1, k - 1) \o <<x>> \o SubSeq(s, k, Len(s))

RECURSIVE SortByKey(_)
SortByKey(s) ==
  IF s = <<>> THEN <<>>
  ELSE InsertSorted(SortByKey(SubSeq(s, 1, Len(s) - 1)), s[Len(s)])

IsPending(i) == task[i].status = "pending"

get_pending(q) == SortByKey(SelectSeq(q, IsPending))

get_by_status(q, status) ==
  SelectSeq(q, LAMBDA i : task[i].status = status)

pending_count(q) == Len(get_pending(q))

\* list.remove(x): the first element that is x or equals x; ConversionTask is a
\* dataclass, so == compares the fields.
RemoveFirst(q, t) ==
  LET hits == {i \in 1..Len(q) : task[q[i]] = task[t]}
  IN  IF hits = {} THEN q
      ELSE LET k == CHOOSE i \in hits : \A j \in hits : i <= j
           IN  SubSeq(q, 1, k - 1) \o SubSeq(q, k + 1, Len(q))

\* add(source_path, priority) at time now: a fresh task appended to _tasks.
Add(path, priority, now) ==
  /\ clock' = now
  /\ task' = Append(task, NewTask(path, priority, now))
  /\ _tasks' = Append(_tasks, Len(task) + 1)
  /\ UNCHANGED <<pvars, xvars>>

\* add_many(source_paths, priority): add() for each path in turn; times[k] is
\* the clock reading of the k-th add.
RECURSIVE AddAll(_, _, _, _)
AddAll(ts, paths, priority, times) ==
  IF paths = <<>> THEN ts
  ELSE AddAll(Append(ts, NewTask(Head(paths), priority, Head(times))),
              Tail(paths), priority, Tail(times))

AddMany(paths, priority, times) ==
  /\ task' = AddAll(task, paths, priority, times)
  /\ _tasks' = _tasks \o [k \in 1..Len(paths) |-> Len(task) + k]
  /\ clock' = IF times = <<>> THEN clock ELSE times[Len(times)]
  /\ UNCHANGED <<pvars, xvars>>

\* remove(task): True and the task gone if list.remove finds it, else False.
Remove(i) ==
  /\ _tasks' = RemoveFirst(_tasks, i)
  /\ UNCHANGED <<task, clock, pvars, xvars>>

\* clear()
Clear ==
  /\ _tasks' = <<>>
  /\ UNCHANGED <<task, clock, pvars, xvars>>

\* The caller, holding task i, calls one of its mark_* methods.
MarkStarted(i) ==
  /\ task' = [task EXCEPT ![i] = mark_started(@, clock)]
  /\ UNCHANGED <<_tasks, clock, pvars, xvars>>

\* Mutant of MarkCompleted: a completed task is taken out of the queue.
MarkCompletedDequeue(i) ==
  /\ task' = [task EXCEPT ![i] = mark_completed(@, clock)]
  /\ _tasks' = SelectSeq(_tasks, LAMBDA x : x # i)
  /\ UNCHANGED <<clock, pvars, xvars>>

MarkCompleted(i) ==
  /\ task' = [task EXCEPT ![i] = mark_completed(@, clock)]
  /\ UNCHANGED <<_tasks, clock, pvars, xvars>>

MarkFailed(i, error) ==
  /\ task' = [task EXCEPT ![i] = mark_failed(@, error, clock)]
  /\ UNCHANGED <<_tasks, clock, pvars, xvars>>

MarkSkipped(i, reason) ==
  /\ task' = [task EXCEPT ![i] = mark_skipped(@, reason, clock)]
  /\ UNCHANGED <<_tasks, clock, pvars, xvars>>

\* ------------------------------------------------------------- add_from_directory
\* A directory entry: its name (stem and suffix), whether it is a regular file
\* or a subdirectory, and whether it lies in the directory itself or below one
\* of its subdirectories.
Entry(stem, suffix, is_file, nested) ==
  [stem |-> stem, suffix |-> suffix, is_file |-> is_file, nested |-> nested]
DirEntries ==
  {Entry(n, "pdf", TRUE, FALSE) : n \in {"a", "b", "c"}}
  \cup {Entry("x", "txt", TRUE, FALSE), Entry("y", "doc", TRUE, FALSE),
        Entry("n", "pdf", TRUE, TRUE), Entry("d", "pdf", FALSE, FALSE)}

\* The listings the file system may give: up to n of the entries E, in any order.
Listings(E, n) ==
  {es \in UNION {[1..k -> E] : k \in 0..n} :
     \A i, j \in 1..Len(es) : i # j => es[i] # es[j]}

\* A glob pattern "<stem>.<suffix>", where the stem may be "*".
Pattern(stem, suffix) == [stem |-> stem, suffix |-> suffix]
Patterns == {Pattern("*", "pdf"), Pattern("*", "txt")}

\* Mutant of Matches: every name matches.
MatchesAnything(e, pattern) == TRUE

\* Whether the name of entry e matches the pattern.
Matches(e, pattern) ==
  /\ pattern.stem \in {"*", e.stem}
  /\ pattern.suffix = e.suffix

\* dir_path.glob(pattern) / dir_path.rglob(pattern): the matching entries of the
\* directory itself, or those at any depth, in the order the listing has.
Glob(d, pattern, recursive) ==
  SelectSeq(d.entries, LAMBDA e : Matches(e, pattern) /\ (recursive \/ ~e.nested))

\* add(): output_dir=Path(output_dir) if output_dir else None.
OutputDir(output_dir) ==
  IF output_dir = None \/ output_dir = Some("") THEN None ELSE output_dir

\* The loop of add_from_directory: add(pdf_file, output_dir, priority) for each.
RECURSIVE AddEach(_, _, _, _, _)
AddEach(ts, files, output_dir, priority, now) ==
  IF files = <<>> THEN ts
  ELSE AddEach(Append(ts, [NewTask(Head(files), priority, now)
                             EXCEPT !.output_dir = OutputDir(output_dir)]),
               Tail(files), output_dir, priority, now)

\* Mutant of IsDir: the path is taken for a directory unchecked.
IsDirUnchecked(d) == TRUE

\* dir_path.is_dir()
IsDir(d) == d.is_dir

\* What add_from_directory(directory, pattern, recursive, output_dir, priority)
\* does to the queue, and how it ends: ValueError("Not a directory: ...") for a
\* path that is no directory, else one add() per path globbed.
ScanDirectory(pattern, recursive, output_dir, priority) ==
  LET call == [pattern |-> pattern, recursive |-> recursive,
               output_dir |-> output_dir, priority |-> priority,
               before |-> _tasks]
  IN  IF ~IsDir(directory)
        THEN /\ last_call' = Some(call @@ [raised |->
                               Some([type |-> "ValueError",
                                     message |-> "Not a directory"])])
             /\ UNCHANGED <<task, _tasks>>
        ELSE LET files == Glob(directory, pattern, recursive)
             IN  /\ task' = AddEach(task, files, output_dir, priority, clock)
                 /\ _tasks' = _tasks \o [k \in 1..Len(files) |-> Len(task) + k]
                 /\ last_call' = Some(call @@ [raised |-> None])

AddFromDirectory(pattern, recursive, output_dir, priority) ==
  /\ last_call = None
  /\ ScanDirectory(pattern, recursive, output_dir, priority)
  /\ UNCHANGED <<clock, pvars, marking, reader, directory, cli, yvars, zvars>>

\* ------------------------------------------------------------- converter
\* What one convert() call does: it raises (message "boom"), or it returns a
\* result with a success flag, a page count and an optional error message.
ConvertOutcomes ==
  {[raises |-> TRUE, success |-> FALSE, pages |-> 0, error |-> Some("boom")]}
  \cup {[raises |-> FALSE, success |-> TRUE, pages |-> p, error |-> None] :
          p \in PageCounts}
  \cup {[raises |-> FALSE, success |-> FALSE, pages |-> 0, error |-> Some("bad pdf")],
        [raises |-> FALSE, success |-> FALSE, pages |-> 1, error |-> None]}

\* ------------------------------------------------------------- BatchProcessor
\* Mutant of ProcessTaskMark: the task is marked completed whatever the result.
ProcessTaskMarkCompleted(t, o, now) == mark_completed(t, now)

\* _process_task after convert(): the task's mark ...
ProcessTaskMark(t, o, now) ==
  IF o.raises THEN mark_failed(t, o.error[1], now)
  ELSE IF o.success THEN mark_completed(t, now)
  ELSE mark_failed(t, IF o.error = None THEN "Unknown error" ELSE o.error[1], now)

\* Mutant of ProcessTaskResult: a convert() exception passes for a success.
ProcessTaskResultLost(i, o) ==
  [task |-> i, success |-> IF o.raises THEN TRUE ELSE o.success,
   pages_converted |-> o.pages, error_message |-> o.error]

\* ... and the ConversionResult it returns (tagged with the task it is for).
ProcessTaskResult(i, o) ==
  IF o.raises
    THEN [task |-> i, success |-> FALSE, pages_converted |-> 0,
          error_message |-> o.error]
    ELSE [task |-> i, success |-> o.success, pages_converted |-> o.pages,
          error_message |-> o.error]

\* Mutant of PoolSize: a thread per submitted task.
PoolSizePerTask(c) == Len(batch[c])

\* The threads a ThreadPoolExecutor(max_workers) runs at once.
PoolSize(c) == max_workers[c]

SeqSet(s) == {s[i] : i \in 1..Len(s)}

\* process() lines 63-71: count the pending tasks; none: return []; else
\* clear _results and zero the counter.
Start(c, cb) ==
  /\ pc[c] = "idle"
  /\ LET n == pending_count(_tasks)
     IN  IF n = 0
           THEN /\ pc' = [pc EXCEPT ![c] = "returned"]
                /\ ret' = [ret EXCEPT ![c] = "empty"]
                /\ UNCHANGED <<total_tasks, completed, callback, _results>>
           ELSE /\ pc' = [pc EXCEPT ![c] = "started"]
                /\ total_tasks' = [total_tasks EXCEPT ![c] = n]
                /\ completed' = [completed EXCEPT ![c] = 0]
                /\ callback' = [callback EXCEPT ![c] = cb]
                /\ _results' = [_results EXCEPT ![c] = <<>>]
                /\ UNCHANGED ret
  /\ at_start' = [at_start EXCEPT ![c] = SeqSet(get_pending(_tasks))]
  /\ UNCHANGED <<xvars, qvars, callers, max_workers, batch, nsub, workq, busy, fresult,
                 early, doneQ, yielded, calls, dispatches, convlog>>

\* process() lines 74-77: the executor is created and get_pending() is called
\* once; the loop then submits its elements and, when none is left, goes on to
\* call as_completed().  ThreadPoolExecutor(max_workers) raises ValueError for
\* max_workers <= 0, and that leaves process().
Snapshot(c) ==
  /\ pc[c] = "started"
  /\ IF max_workers[c] <= 0
       THEN /\ pc' = [pc EXCEPT ![c] = "raised"]
            /\ UNCHANGED batch
       ELSE LET b == get_pending(_tasks)
            IN  /\ batch' = [batch EXCEPT ![c] = b]
                /\ pc' = [pc EXCEPT ![c] = IF b = <<>> THEN "as_completed"
                                           ELSE "submit"]
  /\ nsub' = [nsub EXCEPT ![c] = 0]
  /\ UNCHANGED <<xvars, qvars, callers, max_workers, total_tasks, completed, callback,
                 workq, busy, fresult, early, doneQ, yielded, _results, ret,
                 calls, dispatches, convlog, at_start>>

\* process() lines 78-79: executor.submit(self._process_task, task).
Submit(c) ==
  /\ pc[c] = "submit"
  /\ workq' = [workq EXCEPT ![c] = Append(@, batch[c][nsub[c] + 1])]
  /\ nsub' = [nsub EXCEPT ![c] = @ + 1]
  /\ pc' = [pc EXCEPT ![c] = IF nsub[c] + 1 = Len(batch[c]) THEN "as_completed"
                             ELSE "submit"]
  /\ UNCHANGED <<xvars, qvars, callers, max_workers, total_tasks, completed, callback,
                 batch, busy, fresult, early, doneQ, yielded, _results, ret,
                 calls, dispatches, convlog, at_start>>

\* process() line 82: as_completed(futures) starts; it sets apart the futures
\* that are finished by now.
AsCompleted(c) ==
  /\ pc[c] = "as_completed"
  /\ pc' = [pc EXCEPT ![c] = "collect"]
  /\ UNCHANGED <<xvars, qvars, callers, max_workers, total_tasks, completed, callback,
                 batch, nsub, workq, busy, fresult, early, doneQ, yielded,
                 _results, ret, calls, dispatches, convlog, at_start>>

\* A worker thread takes the next work item and enters _process_task:
\* mark_started (line 118), then convert() is in flight.
WorkerStart(c) ==
  /\ pc[c] \in {"submit", "as_completed", "collect", "unwind"}
  /\ workq[c] # <<>>
  /\ Cardinality(busy[c]) < PoolSize(c)
  /\ LET i == Head(workq[c])
     IN  /\ task' = [task EXCEPT ![i] = mark_started(@, clock)]
         /\ busy' = [busy EXCEPT ![c] = @ \cup {i}]
         /\ dispatches' = [dispatches EXCEPT ![i] = @ + 1]
  /\ workq' = [workq EXCEPT ![c] = Tail(@)]
  /\ UNCHANGED <<xvars, _tasks, clock, callers, max_workers, pc, total_tasks, completed,
                 callback, batch, nsub, fresult, early, doneQ, yielded, _results,
                 ret, calls, convlog, at_start>>

\* convert() ends with outcome o; _process_task marks the task and returns the
\* result (lines 120-158); the future is finished.
WorkerFinish(c, i, o) ==
  /\ i \in busy[c]
  /\ task' = [task EXCEPT ![i] = ProcessTaskMark(@, o, clock)]
  /\ busy' = [busy EXCEPT ![c] = @ \ {i}]
  /\ fresult' = [fresult EXCEPT ![c] = (i :> ProcessTaskResult(i, o)) @@ @]
  /\ IF pc[c] \in {"submit", "as_completed"}
       THEN /\ early' = [early EXCEPT ![c] = Append(@, i)]
            /\ UNCHANGED doneQ
       ELSE /\ doneQ' = [doneQ EXCEPT ![c] = Append(@, i)]
            /\ UNCHANGED early
  /\ convlog' = [convlog EXCEPT ![c] = (i :> o) @@ @]
  /\ UNCHANGED <<xvars, _tasks, clock, callers, max_workers, pc, total_tasks, completed,
                 callback, batch, nsub, workq, yielded, _results, ret, calls,
                 dispatches, at_start>>

\* The future as_completed() yields next: those found finished at its start in
\* any order (it keeps them in a set), then the others in completion order.
NextFutures(c) ==
  IF early[c] # <<>> THEN SeqSet(early[c])
  ELSE IF doneQ[c] # <<>> THEN {Head(doneQ[c])}
  ELSE {}

\* One progress_callback invocation, as the caller sees it.
Call(i, current, total, kind, raised) ==
  [task |-> i, current |-> current, total |-> total, kind |-> kind,
   raised |-> raised]

\* process() lines 82-104, one iteration: the result is appended and counted
\* under the lock, the callback is called; if that raises (r1), the handler
\* counts again and calls the callback again, and if that raises too (r2) the
\* exception leaves process().
Collect(c, i, r1, r2) ==
  /\ pc[c] = "collect"
  /\ i \in NextFutures(c)
  /\ yielded' = [yielded EXCEPT ![c] = @ \cup {i}]
  /\ early' = [early EXCEPT ![c] = SelectSeq(@, LAMBDA x : x # i)]
  /\ doneQ' = [doneQ EXCEPT ![c] = IF early[c] # <<>> THEN @ ELSE Tail(@)]
  /\ _results' = [_results EXCEPT ![c] = Append(@, fresult[c][i])]
  /\ IF ~callback[c]
       THEN /\ r1 = FALSE /\ r2 = FALSE
            /\ completed' = [completed EXCEPT ![c] = @ + 1]
            /\ UNCHANGED <<calls, pc>>
       ELSE LET first == Call(i, completed[c] + 1, total_tasks[c],
                              IF fresult[c][i].success THEN "converted"
                              ELSE "failed", r1)
                again == Call(i, completed[c] + 2, total_tasks[c], "error", r2)
            IN  IF ~r1
                  THEN /\ r2 = FALSE
                       /\ completed' = [completed EXCEPT ![c] = @ + 1]
                       /\ calls' = [calls EXCEPT ![c] = Append(@, first)]
                       /\ UNCHANGED pc
                  ELSE /\ completed' = [completed EXCEPT ![c] = @ + 2]
                       /\ calls' = [calls EXCEPT ![c] = @ \o <<first, again>>]
                       /\ pc' = [pc EXCEPT ![c] = IF r2 THEN "unwind" ELSE @]
  /\ UNCHANGED <<xvars, qvars, callers, max_workers, total_tasks, callback, batch, nsub,
                 workq, busy, fresult, ret, dispatches, convlog, at_start>>

\* as_completed() is exhausted, the executor shuts down (nothing is left to
\* wait for) and process() returns self._results (line 106).
Return(c) ==
  /\ pc[c] = "collect"
  /\ yielded[c] = SeqSet(batch[c])
  /\ pc' = [pc EXCEPT ![c] = "returned"]
  /\ ret' = [ret EXCEPT ![c] = "_results"]
  /\ UNCHANGED <<xvars, qvars, callers, max_workers, total_tasks, completed, callback,
                 batch, nsub, workq, busy, fresult, early, doneQ, yielded,
                 _results, calls, dispatches, convlog, at_start>>

\* An exception leaving the loop: the executor's __exit__ waits for the submitted
\* work to finish, then the exception leaves process().
Unwound(c) ==
  /\ pc[c] = "unwind"
  /\ workq[c] = <<>>
  /\ busy[c] = {}
  /\ pc' = [pc EXCEPT ![c] = "raised"]
  /\ UNCHANGED <<xvars, qvars, callers, max_workers, total_tasks, completed, callback,
                 batch, nsub, workq, busy, fresult, early, doneQ, yielded,
                 _results, ret, calls, dispatches, convlog, at_start>>

\* The caller, back from process() (which returned, or raised and was caught),
\* calls it again on the same BatchProcessor: the locals of the call before are
\* gone, self._results is as it was left.
ProcessAgain(c) ==
  /\ pc[c] \in {"returned", "raised"}
  /\ pc' = [pc EXCEPT ![c] = "idle"]
  /\ batch' = [batch EXCEPT ![c] = <<>>]
  /\ nsub' = [nsub EXCEPT ![c] = 0]
  /\ fresult' = [fresult EXCEPT ![c] = <<>>]
  /\ early' = [early EXCEPT ![c] = <<>>]
  /\ doneQ' = [doneQ EXCEPT ![c] = <<>>]
  /\ yielded' = [yielded EXCEPT ![c] = {}]
  /\ UNCHANGED <<xvars, qvars, callers, max_workers, total_tasks, completed,
                 callback, workq, busy, _results, ret, calls, dispatches,
                 convlog, at_start>>

\* What process() returned.
Returned(c) == IF ret[c] = "_results" THEN _results[c] ELSE <<>>

RECURSIVE SumPages(_)
SumPages(rs) ==
  IF rs = <<>> THEN 0 ELSE Head(rs).pages_converted + SumPages(Tail(rs))

IsSuccess(r) == r.success
IsFailure(r) == ~r.success

\* Mutant of get_summary: the pages of every result are added up.
get_summary_all_pages(rs) ==
  [total |-> Len(rs), successful |-> Len(SelectSeq(rs, IsSuccess)),
   failed |-> Len(SelectSeq(rs, IsFailure)), total_pages |-> SumPages(rs)]

\* get_summary() over _results (its image and duration totals are left out).
get_summary(rs) ==
  IF rs = <<>>
    THEN [total |-> 0, successful |-> 0, failed |-> 0, total_pages |-> 0]
    ELSE [total |-> Len(rs), successful |-> Len(SelectSeq(rs, IsSuccess)),
          failed |-> Len(SelectSeq(rs, IsFailure)),
          total_pages |-> SumPages(SelectSeq(rs, IsSuccess))]

\* ------------------------------------------------------------- threads
\* The mark_* methods and get_statistics() statement by statement, as a thread
\* that reads the queue meanwhile meets them: neither ConversionTask nor
\* TaskQueue holds a lock.
Workers == {"w1", "w2"}

\* The assignments a mark_* method makes, in the order of its statements.
MarkStatements(method, arg, now) ==
  CASE method = "mark_started" ->
         <<<<"status", "running">>, <<"started_at", Some(now)>>>>
    [] method = "mark_completed" ->
         <<<<"status", "completed">>, <<"completed_at", Some(now)>>>>
    [] method = "mark_failed" ->
         <<<<"status", "failed">>, <<"error_message", Some(arg)>>,
           <<"completed_at", Some(now)>>>>
    [] method = "mark_skipped" ->
         <<<<"status", "skipped">>, <<"error_message", Some(arg)>>,
           <<"completed_at", Some(now)>>>>

Assign(t, a) == [t EXCEPT ![a[1]] = a[2]]

\* The status a task is in when the batch layer calls the method on it:
\* _process_task starts a pending task and ends a running one, the caller skips
\* a pending one.
CalledOn(method) ==
  IF method \in {"mark_started", "mark_skipped"} THEN "pending" ELSE "running"

Marked == {marking[w][1].task : w \in {v \in Workers : marking[v] # None}}

\* Thread w calls a mark_* method of task i and executes its first statement.
BeginMark(w, i, method) ==
  /\ marking[w] = None
  /\ i \notin Marked
  /\ task[i].status = CalledOn(method)
  /\ LET todo == MarkStatements(method, "boom", clock)
     IN  /\ task' = [task EXCEPT ![i] = Assign(@, Head(todo))]
         /\ marking' = [marking EXCEPT ![w] = Some([task |-> i, todo |-> Tail(todo)])]
  /\ UNCHANGED <<_tasks, clock, pvars, reader, directory, last_call, cli, yvars, zvars>>

\* Thread w executes the next statement of the method it is in.
MarkStep(w) ==
  /\ marking[w] # None
  /\ LET m == marking[w][1]
     IN  /\ task' = [task EXCEPT ![m.task] = Assign(@, Head(m.todo))]
         /\ marking' = [marking EXCEPT ![w] =
                          IF Len(m.todo) = 1 THEN None
                          ELSE Some([m EXCEPT !.todo = Tail(@)])]
  /\ UNCHANGED <<_tasks, clock, pvars, reader, directory, last_call, cli, yvars, zvars>>

\* The reader looks at task i: its status, start time and error message.
ReadTask(i) ==
  /\ reader.counts = <<>>
  /\ reader' = [reader EXCEPT
                  !.seen = Some([status |-> task[i].status,
                                 started_at |-> task[i].started_at,
                                 error_message |-> task[i].error_message]),
                  !.statistics = None]
  /\ UNCHANGED <<qvars, pvars, marking, directory, last_call, cli, yvars, zvars>>

\* get_statistics() builds its dictionary entry by entry: len(_tasks), then one
\* pass over _tasks for each status.
StatisticsKeys == <<"total", "pending", "running", "completed", "failed", "skipped">>

StatisticsEntry(key) ==
  IF key = "total" THEN Len(_tasks)
  ELSE IF key = "pending" THEN pending_count(_tasks)
  ELSE Len(get_by_status(_tasks, key))

\* The reader, inside get_statistics(), evaluates the next entry; the last one
\* completes the dictionary it returns.
GetStatisticsStep ==
  /\ LET key == StatisticsKeys[Len(reader.counts) + 1]
         counts == Append(reader.counts, StatisticsEntry(key))
     IN  reader' = IF Len(counts) < Len(StatisticsKeys)
                     THEN [reader EXCEPT !.counts = counts, !.seen = None,
                                         !.statistics = None]
                     ELSE [reader EXCEPT !.counts = <<>>,
                                         !.statistics = Some(counts)]
  /\ UNCHANGED <<qvars, pvars, marking, directory, last_call, cli, yvars, zvars>>

\* ------------------------------------------------------------- cli
\* The `pdf2md batch DIRECTORY --workers N` command, step by step.  It ends by
\* sys.exit(code) after printing a message, by an uncaught exception (exit code
\* 1, a traceback), or by returning after the summary (exit code 0).
CliExit(code, printed) ==
  [cli EXCEPT !.pc = "exit", !.exit_code = Some(code), !.printed = Some(printed)]

\* if not check_dependencies(): sys.exit(1)
CheckDependencies(ok) ==
  /\ cli.pc = "start"
  /\ cli' = IF ok THEN [cli EXCEPT !.pc = "create_converter"]
            ELSE CliExit(1, "Docling is not installed")
  /\ UNCHANGED <<qvars, pvars, marking, reader, directory, last_call, yvars, zvars>>

\* Mutant of CreateConverter: a converter that failed to initialize is used.
CreateConverterUnchecked(ok) ==
  /\ cli.pc = "create_converter"
  /\ cli' = [cli EXCEPT !.pc = "queue",
                        !.converter = IF ok THEN "ok" ELSE "failed"]
  /\ UNCHANGED <<qvars, pvars, marking, reader, directory, last_call, yvars, zvars>>

\* converter = DoclingConverter(config); any exception: print "Failed to
\* initialize converter: ..." and sys.exit(1).
CreateConverter(ok) ==
  /\ cli.pc = "create_converter"
  /\ cli' = IF ok THEN [cli EXCEPT !.pc = "queue", !.converter = "ok"]
            ELSE [CliExit(1, "Failed to initialize converter")
                    EXCEPT !.converter = "failed"]
  /\ UNCHANGED <<qvars, pvars, marking, reader, directory, last_call, yvars, zvars>>

\* queue = TaskQueue(); queue.add_from_directory(directory, pattern, recursive,
\* output_dir) with the default priority; no pending task: print "No PDF files
\* found" and sys.exit(0).
QueueDirectory(pattern, recursive, output_dir) ==
  /\ cli.pc = "queue"
  /\ ScanDirectory(pattern, recursive, output_dir, 0)
  /\ cli' = IF Glob(directory, pattern, recursive) = <<>>
              THEN CliExit(0, "No PDF files found")
              ELSE [cli EXCEPT !.pc = "create_processor"]
  /\ UNCHANGED <<clock, pvars, marking, reader, directory, yvars, zvars>>

\* processor = BatchProcessor(converter, max_workers=workers)
CreateProcessor ==
  /\ cli.pc = "create_processor"
  /\ max_workers' = [c \in Callers |-> IF c \in callers THEN cli.workers
                                      ELSE max_workers[c]]
  /\ cli' = [cli EXCEPT !.pc = "process"]
  /\ UNCHANGED <<qvars, callers, pc, total_tasks, completed, callback, batch,
                 nsub, workq, busy, fresult, early, doneQ, yielded, _results,
                 ret, calls, dispatches, convlog, at_start, marking, reader,
                 directory, last_call, yvars, zvars>>

\* results = processor.process(queue, progress_callback)
Process == cli.pc = "process" /\ \E c \in callers : Start(c, TRUE)

\* process() has returned: the summary is printed, with the list of failed
\* conversions if there are any.
Summary ==
  /\ cli.pc = "process"
  /\ \E c \in callers :
       /\ pc[c] = "returned"
       /\ cli' = CliExit(0, IF SelectSeq(Returned(c), IsFailure) = <<>>
                              THEN "Batch Conversion Complete"
                              ELSE "Batch Conversion Complete, Failed conversions")
  /\ UNCHANGED <<qvars, pvars, marking, reader, directory, last_call, yvars, zvars>>

\* An exception has left process(): nothing catches it.
Crash ==
  /\ cli.pc = "process"
  /\ \E c \in callers : pc[c] = "raised"
  /\ cli' = CliExit(1, "Traceback")
  /\ UNCHANGED <<qvars, pvars, marking, reader, directory, last_call, yvars, zvars>>

\* ------------------------------------------------------------- memory pressure
\* A psutil.virtual_memory() reading: percent in tenths of a percent (psutil
\* reports one decimal), available in MiB.
MiBPerGiB == 1024
Pressures == <<"low", "medium", "high", "critical">>

\* AdvancedMemoryManager.get_memory_pressure(): available_gb < 2 and < 4,
\* percent > 90, > 75 and > 60.
AdvancedMemoryManager_get_memory_pressure(vm) ==
  IF vm.percent > 900 \/ vm.available < 2 * MiBPerGiB THEN "critical"
  ELSE IF vm.percent > 750 \/ vm.available < 4 * MiBPerGiB THEN "high"
  ELSE IF vm.percent > 600 THEN "medium"
  ELSE "low"

\* MemoryManager.get_memory_pressure(): stats.percent alone.
MemoryManager_get_memory_pressure(vm) ==
  IF vm.percent < 500 THEN "low"
  ELSE IF vm.percent < 700 THEN "medium"
  ELSE IF vm.percent < 850 THEN "high"
  ELSE "critical"

Managers == {"AdvancedMemoryManager", "MemoryManager"}
get_memory_pressure(manager, vm) ==
  IF manager = "AdvancedMemoryManager"
  THEN AdvancedMemoryManager_get_memory_pressure(vm)
  ELSE MemoryManager_get_memory_pressure(vm)

Max(a, b) == IF a >= b THEN a ELSE b
Min(a, b) == IF a <= b THEN a ELSE b

\* recommend_batch_size() with the floors of the two branches exchanged.
new_size_floors_exchanged(pressure, current_batch_size) ==
  IF pressure = "critical" THEN Max(2, current_batch_size \div 4)
  ELSE IF pressure = "high" THEN Max(1, current_batch_size \div 2)
  ELSE current_batch_size

\* recommend_batch_size(): the branch taken for a pressure.
new_size(pressure, current_batch_size) ==
  IF pressure = "critical" THEN Max(1, current_batch_size \div 4)
  ELSE IF pressure = "high" THEN Max(2, current_batch_size \div 2)
  ELSE current_batch_size

\* test_batch_processor_memory_logic: the worker count for a pressure.
actual_workers(pressure, workers) ==
  IF pressure = "critical" THEN 1
  ELSE IF pressure = "high" THEN Max(1, workers \div 2)
  ELSE workers

NoAdvice ==
  [call |-> "none", manager |-> "none", vm |-> <<>>, current_batch_size |-> 0,
   pressure |-> "none", new_size |-> 0]

\* manager.get_memory_pressure()
GetMemoryPressure(manager) ==
  /\ advice' = [NoAdvice EXCEPT !.call = "get_memory_pressure",
                               !.manager = manager,
                               !.vm = virtual_memory,
                               !.pressure = get_memory_pressure(manager, virtual_memory)]
  /\ UNCHANGED <<qvars, pvars, marking, reader, directory, last_call, cli,
                 virtual_memory, system, config, zvars>>

\* AdvancedMemoryManager.recommend_batch_size(current_batch_size)
RecommendBatchSize(current_batch_size) ==
  LET pressure == AdvancedMemoryManager_get_memory_pressure(virtual_memory) IN
  /\ advice' = [call |-> "recommend_batch_size",
                manager |-> "AdvancedMemoryManager",
                vm |-> virtual_memory,
                current_batch_size |-> current_batch_size,
                pressure |-> pressure,
                new_size |-> new_size(pressure, current_batch_size)]
  /\ UNCHANGED <<qvars, pvars, marking, reader, directory, last_call, cli,
                 virtual_memory, system, config, zvars>>

\* The memory in use changes between two calls.
MemoryChanges(vm) ==
  /\ vm # virtual_memory
  /\ virtual_memory' = vm
  /\ UNCHANGED <<qvars, pvars, marking, reader, directory, last_call, cli,
                 advice, system, config, zvars>>

\* ------------------------------------------------------------- planners
\* The machine as psutil and the GPU probes report it: cpu_count is
\* psutil.cpu_count(logical=False), 0 standing for None; memory in MiB; the
\* GPU's memory_mb is 0 where it is None.

\* AMDCPUOptimizer._detect_system()
_detect_system(hw) ==
  [physical_cores |-> IF hw.cpu_count = 0 THEN 16 ELSE hw.cpu_count,
   total_mb |-> hw.total_mb,
   available_mb |-> hw.available_mb]

\* AMDCPUOptimizer.calculate_optimal_workers(): int(available_memory_gb / 2)
calculate_optimal_workers(sys) ==
  LET cpu_based == sys.physical_cores
      mem_based == sys.available_mb \div (2 * MiBPerGiB)
  IN  Max(Min(cpu_based, mem_based), 4)

\* calculate_optimal_batch_size() with no upper limit that depends on memory.
upper_limit_flat(total_mb) == 128

\* calculate_optimal_batch_size(): upper_limit
upper_limit(total_mb) ==
  IF total_mb >= 96 * MiBPerGiB THEN 64
  ELSE IF total_mb >= 64 * MiBPerGiB THEN 48
  ELSE IF total_mb >= 32 * MiBPerGiB THEN 32
  ELSE 16

\* AMDCPUOptimizer.calculate_optimal_batch_size(workers, use_gpu):
\* int(available_gb * 1.5) is (3 * available_mb) // 2048.
calculate_optimal_batch_size(sys, workers, use_gpu) ==
  IF use_gpu
  THEN (IF sys.total_mb >= 64 * MiBPerGiB THEN 64 ELSE 48)
  ELSE LET mem_based_batch == (sys.available_mb * 3) \div (2 * MiBPerGiB)
           cpu_based_batch == workers * 2
           core_based_batch == sys.physical_cores * 2
           batch_size == Min(Min(mem_based_batch, cpu_based_batch),
                             Min(core_based_batch, upper_limit(sys.total_mb)))
       IN  Max(batch_size, 8)

\* AMDCPUOptimizer.get_optimal_config(enable_gpu)
get_optimal_config(sys, enable_gpu) ==
  LET workers == calculate_optimal_workers(sys)
      batch_size == calculate_optimal_batch_size(sys, workers, enable_gpu)
  IN  [max_workers |-> workers,
       ocr_batch_size |-> batch_size,
       table_batch_size |-> Max(batch_size \div 4, 2)]

\* SystemDetector: cores_physical is psutil.cpu_count(logical=False) or 1.
detect(hw) ==
  [cpu |-> [cores_physical |-> IF hw.cpu_count = 0 THEN 1 ELSE hw.cpu_count],
   gpu |-> hw.gpu,
   memory |-> [total_mb |-> hw.total_mb, available_mb |-> hw.available_mb]]

\* SystemCapabilities.get_optimal_workers(): int(w * 1.5), int(w * 0.75),
\* int(w * 0.5) and int(w * 1.2) in whole numbers.
get_optimal_workers(caps) ==
  LET base == caps.cpu.cores_physical
      total_mb == caps.memory.total_mb
      by_memory == IF total_mb >= 64 * MiBPerGiB THEN (base * 3) \div 2
                   ELSE IF total_mb >= 32 * MiBPerGiB THEN base
                   ELSE IF total_mb >= 16 * MiBPerGiB THEN (base * 3) \div 4
                   ELSE base \div 2
      workers == IF caps.gpu.vendor # "none" /\ total_mb >= 32 * MiBPerGiB
                   THEN by_memory
                 ELSE IF caps.gpu.vendor # "none" THEN (by_memory * 6) \div 5
                 ELSE by_memory
  IN  Max(1, Min(workers, 16))

\* get_optimal_batch_size() with the CPU-only sizes in the opposite order.
cpu_only_batch_reversed(cores_physical) ==
  IF cores_physical >= 16 THEN 4 ELSE IF cores_physical >= 8 THEN 8 ELSE 16

\* get_optimal_batch_size(): the CPU-only branch
cpu_only_batch(cores_physical) ==
  IF cores_physical >= 16 THEN 16 ELSE IF cores_physical >= 8 THEN 8 ELSE 4

\* SystemCapabilities.get_optimal_batch_size()
get_optimal_batch_size(caps) ==
  IF caps.gpu.supports_cuda \/ caps.gpu.supports_rocm
  THEN (IF caps.gpu.memory_mb >= 64000 THEN 128
        ELSE IF caps.gpu.memory_mb >= 16000 THEN 64
        ELSE IF caps.gpu.memory_mb >= 8000 THEN 32
        ELSE 16)
  ELSE IF caps.gpu.vendor = "apple" /\ caps.gpu.supports_mps
  THEN (IF caps.gpu.memory_mb >= 16000 THEN 32 ELSE 16)
  ELSE cpu_only_batch(caps.cpu.cores_physical)

Planned(call, enable_gpu, workers, batch_size, table_batch_size) ==
  [call |-> call, enable_gpu |-> enable_gpu, max_workers |-> workers,
   ocr_batch_size |-> batch_size, table_batch_size |-> table_batch_size]

\* AMDCPUOptimizer().get_optimal_config(enable_gpu)
GetOptimalConfig(enable_gpu) ==
  LET c == get_optimal_config(_detect_system(system), enable_gpu) IN
  /\ config' = Planned("get_optimal_config", enable_gpu, c.max_workers,
                       c.ocr_batch_size, c.table_batch_size)
  /\ UNCHANGED <<qvars, pvars, marking, reader, directory, last_call, cli,
                 virtual_memory, advice, system, zvars>>

\* SystemDetector().detect().get_optimal_workers()
GetOptimalWorkers ==
  /\ config' = Planned("get_optimal_workers", FALSE,
                       get_optimal_workers(detect(system)), 0, 0)
  /\ UNCHANGED <<qvars, pvars, marking, reader, directory, last_call, cli,
                 virtual_memory, advice, system, zvars>>

\* SystemDetector().detect().get_optimal_batch_size()
GetOptimalBatchSize ==
  /\ config' = Planned("get_optimal_batch_size", FALSE, 0,
                       get_optimal_batch_size(detect(system)), 0)
  /\ UNCHANGED <<qvars, pvars, marking, reader, directory, last_call, cli,
                 virtual_memory, advice, system, zvars>>

\* `pdf2md convert` with --workers and --batch-size given or not (None) and
\* --gpu/--no-gpu: the ConversionConfig it builds.
Convert(workers, batch_size, gpu) ==
  LET optimizer == _detect_system(system)
      auto_workers == IF workers = None
                        THEN calculate_optimal_workers(optimizer)
                        ELSE workers[1]
      optimizer_config == IF batch_size = None
                            THEN Some(get_optimal_config(optimizer, gpu))
                            ELSE None
      auto_batch_size == IF batch_size = None
                           THEN optimizer_config[1].ocr_batch_size
                           ELSE batch_size[1]
  IN
  /\ config' = Planned("convert", gpu, auto_workers, auto_batch_size,
                       IF optimizer_config # None
                         THEN optimizer_config[1].table_batch_size
                         ELSE auto_batch_size \div 4)
  /\ UNCHANGED <<qvars, pvars, marking, reader, directory, last_call, cli,
                 virtual_memory, advice, system, zvars>>

\* ------------------------------------------------------------- SystemDetector
\* How each accelerator probe of _detect_gpu ends on a machine:
\*   nvidia_smi  "missing" (FileNotFoundError; a timeout ends the same way),
\*               "nonzero" (returncode != 0), "one_field" (a first line without
\*               a comma), "bad_memory" (name, then a memory field int() cannot
\*               parse, such as "[N/A]"), "ok"
\*   wmic_gpu    "fail", "no_amd", "amd_one_line" (a single non-empty line),
\*               "amd"                                    (Windows only)
\*   torch       "missing" (ImportError), "unavailable", "cuda_none"
\*               (torch.version.cuda is None: .lower() raises), "rocm", "cuda",
\*               "rocm_props_fail" / "cuda_props_fail" (get_device_properties
\*               raises), "cuda_name_fail" (get_device_name raises)
\*   sysctl      "fail", "intel", "apple"                 (Darwin only)
\*   wmic_cpu    "fail", "other", "ai_max"                (Windows only)
GPUInfo(vendor, model, memory_mb, cuda, rocm, mps) ==
  [vendor |-> vendor, model |-> model, memory_mb |-> memory_mb,
   supports_cuda |-> cuda, supports_rocm |-> rocm, supports_mps |-> mps]

\* _detect_gpu lines 246-252: the values it starts from (memory_mb 0 is None).
NoGpu == GPUInfo("none", "No GPU detected", 0, FALSE, FALSE, FALSE)

\* lines 254-277: model is assigned (line 268) before int() parses the memory
\* field (line 271); vendor and supports_cuda after it.
nvidia_smi_probe(g, h) ==
  IF h.nvidia_smi = "ok"
    THEN [g EXCEPT !.model = "nvidia-smi name", !.memory_mb = 8192,
                   !.vendor = "nvidia", !.supports_cuda = TRUE]
  ELSE IF h.nvidia_smi = "bad_memory"
    THEN [g EXCEPT !.model = "nvidia-smi name"]
  ELSE g

\* lines 279-305
wmic_gpu_probe(g, h) ==
  IF g.vendor = "none" /\ h.platform = "Windows" /\ h.wmic_gpu = "amd"
    THEN [g EXCEPT !.model = "wmic name", !.vendor = "amd",
                   !.supports_rocm = TRUE]
    ELSE g

\* lines 307-329: in the ROCm branch vendor, model and supports_rocm are set
\* before get_device_properties(); in the CUDA branch vendor and supports_cuda
\* before it, and model after memory_mb.
torch_probe(g, h) ==
  IF g.vendor # "none" THEN g
  ELSE IF h.torch \in {"rocm", "rocm_props_fail"}
    THEN [g EXCEPT !.vendor = "amd", !.model = "AMD GPU (via ROCm/PyTorch)",
                   !.supports_rocm = TRUE,
                   !.memory_mb = IF h.torch = "rocm" THEN 24000 ELSE @]
  ELSE IF h.torch \in {"cuda", "cuda_props_fail", "cuda_name_fail"}
    THEN [g EXCEPT !.vendor = "nvidia", !.supports_cuda = TRUE,
                   !.memory_mb = IF h.torch = "cuda_props_fail" THEN @ ELSE 24000,
                   !.model = IF h.torch = "cuda" THEN "torch device name" ELSE @]
  ELSE g

\* lines 331-347
sysctl_probe(g, h) ==
  IF g.vendor = "none" /\ h.platform = "Darwin" /\ h.sysctl = "apple"
    THEN [g EXCEPT !.vendor = "apple", !.model = "sysctl brand string",
                   !.supports_mps = TRUE]
    ELSE g

\* lines 349-368
ai_max_probe(g, h) ==
  IF g.vendor \in {"amd", "none"} /\ h.platform = "Windows" /\ h.wmic_cpu = "ai_max"
    THEN [g EXCEPT !.vendor = "amd", !.model = "AMD AI MAX+ 395 / 8060S",
                   !.supports_rocm = TRUE, !.memory_mb = 96000]
    ELSE g

\* SystemDetector._detect_gpu()
_detect_gpu(h) ==
  ai_max_probe(sysctl_probe(torch_probe(wmic_gpu_probe(
    nvidia_smi_probe(NoGpu, h), h), h), h), h)

\* A machine on which every probe fails.
BareHost(platform) ==
  [platform |-> platform, nvidia_smi |-> "missing", wmic_gpu |-> "fail",
   torch |-> "missing", sysctl |-> "fail", wmic_cpu |-> "fail"]

\* A detect() that probes on every call.
probes_always(d) == TRUE

\* detect() line 159: self._capabilities is None
probes(d) == detection.detectors[d] = None

NoDetection ==
  [detectors |-> <<>>, probed |-> <<>>, seen |-> <<>>, _detector |-> None,
   got |-> <<>>, returned |-> <<>>]

\* SystemDetector(): a detector with nothing cached (lines 146-150).
NewDetector ==
  /\ Len(detection.detectors) < MaxDetectors
  /\ detection' = [detection EXCEPT !.detectors = Append(@, None),
                                   !.probed = Append(@, 0),
                                   !.seen = Append(@, None)]
  /\ UNCHANGED <<qvars, pvars, marking, reader, directory, last_call, cli, yvars,
                 host, monitor>>

\* get_system_detector(): the global detector, created on the first call; the
\* instance each call returned is kept in got.
GetSystemDetector ==
  /\ Len(detection.got) < MaxCalls
  /\ IF detection._detector = None
       THEN /\ Len(detection.detectors) < MaxDetectors
            /\ detection' =
                 [detection EXCEPT !.detectors = Append(@, None),
                                   !.probed = Append(@, 0),
                                   !.seen = Append(@, None),
                                   !._detector = Some(Len(detection.detectors) + 1),
                                   !.got = Append(@, Len(detection.detectors) + 1)]
       ELSE detection' = [detection EXCEPT !.got = Append(@, detection._detector[1])]
  /\ UNCHANGED <<qvars, pvars, marking, reader, directory, last_call, cli, yvars,
                 host, monitor>>

\* The SystemCapabilities the probes give now: CPU and memory as psutil reports
\* them, the accelerator as _detect_gpu finds it.
Probed == [detect(system) EXCEPT !.gpu = _detect_gpu(host)]

\* detector.detect(): what each call returned is kept in returned, how often a
\* detector probed in probed, and the machine it probed last in seen.
Detect(d) ==
  /\ d \in 1..Len(detection.detectors)
  /\ Len(detection.returned) < MaxCalls
  /\ LET caps == IF probes(d) THEN Probed ELSE detection.detectors[d][1]
     IN  detection' =
           [detection EXCEPT !.detectors[d] = Some(caps),
                             !.probed[d] = IF probes(d) THEN @ + 1 ELSE @,
                             !.seen[d] = IF probes(d) THEN Some(host) ELSE @,
                             !.returned = Append(@, [detector |-> d, value |-> caps])]
  /\ UNCHANGED <<qvars, pvars, marking, reader, directory, last_call, cli, yvars,
                 host, monitor>>

\* Between two calls the machine changes: a driver or tool is removed, memory
\* is taken.
HostChanges ==
  /\ host' = BareHost(host.platform)
  /\ system' = [system EXCEPT !.available_mb = 0]
  /\ <<host', system'>> # <<host, system>>
  /\ UNCHANGED <<qvars, pvars, marking, reader, directory, last_call, cli,
                 virtual_memory, advice, config, detection, monitor>>

\* ------------------------------------------------------------- PerformanceMonitor
\* Time is counted in seconds (monitor.now).  A sampler thread is at
\*   "test"    the while self._running test of _monitor_loop,
\*   "measure" inside the try, before the snapshot is built,
\*   "append"  holding a snapshot whose timestamp has been read (ts),
\*   "sleep"   in time.sleep(self.sample_interval) until wake, in the try or in
\*             the except clause,
\*   "done"    after the loop.
\* The psutil reads of one iteration take no modelled time (they block for 0.1 s
\* in psutil.cpu_percent).  stamp numbers the datetime.now() reads in the order
\* they are made.  joined (thread) and after_stop (snapshot) are history: the
\* stop() that joined the thread has returned.

\* stop(): self._thread.join(timeout=5.0)
JoinTimeout == 5

\* PerformanceMonitor(sample_interval): no snapshots, not running, no thread.
NewMonitor(interval) ==
  [sample_interval |-> interval, snapshots |-> <<>>, _running |-> FALSE,
   _thread |-> None, threads |-> <<>>, now |-> 0, stamp |-> 0,
   caller |-> "idle", deadline |-> 0, last |-> "new", failures |-> 0]

\* monitor.start()
MonitorStart ==
  /\ monitor.caller = "idle"
  /\ IF monitor._running
       THEN /\ monitor.last # "start_noop"
            /\ monitor' = [monitor EXCEPT !.last = "start_noop"]
       ELSE /\ Len(monitor.threads) < MaxStarts
            /\ monitor' =
                 [monitor EXCEPT
                    !._running = TRUE,
                    !.threads = Append(@, [pc |-> "test", wake |-> 0, ts |-> 0,
                                           joined |-> FALSE]),
                    !._thread = Some(Len(monitor.threads) + 1),
                    !.last = "started"]
  /\ UNCHANGED <<qvars, pvars, marking, reader, directory, last_call, cli, yvars,
                 host, detection>>

\* monitor.stop() up to the join: a no-op when not running, else _running is
\* cleared and the caller waits in join(timeout=5.0).
MonitorStop ==
  /\ monitor.caller = "idle"
  /\ IF ~monitor._running
       THEN /\ monitor.last # "stop_noop"
            /\ monitor' = [monitor EXCEPT !.last = "stop_noop"]
       ELSE monitor' = [monitor EXCEPT !._running = FALSE,
                                       !.caller = "joining",
                                       !.deadline = monitor.now + JoinTimeout]
  /\ UNCHANGED <<qvars, pvars, marking, reader, directory, last_call, cli, yvars,
                 host, detection>>

\* join() returns, because the thread has ended or because the timeout has
\* passed; stop() then forgets the thread and returns.
StopReturns ==
  /\ monitor.caller = "joining"
  /\ \/ monitor.threads[monitor._thread[1]].pc = "done"
     \/ monitor.now >= monitor.deadline
  /\ monitor' = [monitor EXCEPT !.threads[monitor._thread[1]].joined = TRUE,
                                !._thread = None,
                                !.caller = "idle",
                                !.last = "stopped"]
  /\ UNCHANGED <<qvars, pvars, marking, reader, directory, last_call, cli, yvars,
                 host, detection>>

\* _monitor_loop: while self._running
LoopTest(t) ==
  /\ t \in 1..Len(monitor.threads)
  /\ monitor.threads[t].pc = "test"
  /\ monitor' = [monitor EXCEPT !.threads[t].pc =
                                  IF monitor._running THEN "measure" ELSE "done"]
  /\ UNCHANGED <<qvars, pvars, marking, reader, directory, last_call, cli, yvars,
                 host, detection>>

\* _monitor_loop: the psutil reads and PerformanceSnapshot(timestamp=
\* datetime.now(), ...).
Measure(t) ==
  /\ t \in 1..Len(monitor.threads)
  /\ monitor.threads[t].pc = "measure"
  /\ monitor' = [monitor EXCEPT !.stamp = @ + 1,
                                !.threads[t].ts = monitor.stamp + 1,
                                !.threads[t].pc = "append"]
  /\ UNCHANGED <<qvars, pvars, marking, reader, directory, last_call, cli, yvars,
                 host, detection>>

\* _monitor_loop: a psutil read raises; the except clause logs and sleeps.
MeasureFails(t) ==
  /\ t \in 1..Len(monitor.threads)
  /\ monitor.threads[t].pc = "measure"
  /\ monitor.failures < MaxFailures
  /\ monitor' = [monitor EXCEPT !.failures = @ + 1,
                                !.threads[t].pc = "sleep",
                                !.threads[t].wake =
                                  monitor.now + monitor.sample_interval]
  /\ UNCHANGED <<qvars, pvars, marking, reader, directory, last_call, cli, yvars,
                 host, detection>>

\* _monitor_loop: self.snapshots.append(snapshot), then time.sleep begins.
AppendSnapshot(t) ==
  /\ t \in 1..Len(monitor.threads)
  /\ monitor.threads[t].pc = "append"
  /\ monitor' =
       [monitor EXCEPT
          !.snapshots = Append(@, [timestamp |-> monitor.threads[t].ts,
                                   at |-> monitor.now, thread |-> t,
                                   after_stop |-> monitor.threads[t].joined]),
          !.threads[t].pc = "sleep",
          !.threads[t].wake = monitor.now + monitor.sample_interval]
  /\ UNCHANGED <<qvars, pvars, marking, reader, directory, last_call, cli, yvars,
                 host, detection>>

\* time.sleep(self.sample_interval) returns.
Wake(t) ==
  /\ t \in 1..Len(monitor.threads)
  /\ monitor.threads[t].pc = "sleep"
  /\ monitor.now >= monitor.threads[t].wake
  /\ monitor' = [monitor EXCEPT !.threads[t].pc = "test"]
  /\ UNCHANGED <<qvars, pvars, marking, reader, directory, last_call, cli, yvars,
                 host, detection>>

\* A second passes: every sampler is asleep beyond now or has ended, and no
\* join is due to return.
Tick ==
  /\ monitor.now < MaxTime
  /\ \A t \in 1..Len(monitor.threads) :
       \/ monitor.threads[t].pc = "done"
       \/ monitor.threads[t].pc = "sleep" /\ monitor.threads[t].wake > monitor.now
  /\ monitor.caller = "joining" =>
       /\ monitor.threads[monitor._thread[1]].pc # "done"
       /\ monitor.now < monitor.deadline
  /\ monitor' = [monitor EXCEPT !.now = @ + 1]
  /\ UNCHANGED <<qvars, pvars, marking, reader, directory, last_call, cli, yvars,
                 host, detection>>

\* ------------------------------------------------------------- specifications
InitQueue ==
  /\ task = <<>>
  /\ _tasks = <<>>
  /\ clock = 0

InitProc(cs, counts) ==
  /\ callers = cs
  /\ max_workers \in {f \in [Callers -> counts] :
                        \A c \in Callers \ cs : f[c] = 1}
  /\ pc = [c \in Callers |-> "idle"]
  /\ total_tasks = [c \in Callers |-> 0]
  /\ completed = [c \in Callers |-> 0]
  /\ callback = [c \in Callers |-> FALSE]
  /\ batch = [c \in Callers |-> <<>>]
  /\ nsub = [c \in Callers |-> 0]
  /\ workq = [c \in Callers |-> <<>>]
  /\ busy = [c \in Callers |-> {}]
  /\ fresult = [c \in Callers |-> <<>>]
  /\ early = [c \in Callers |-> <<>>]
  /\ doneQ = [c \in Callers |-> <<>>]
  /\ yielded = [c \in Callers |-> {}]
  /\ _results = [c \in Callers |-> <<>>]
  /\ ret = [c \in Callers |-> "none"]
  /\ calls = [c \in Callers |-> <<>>]
  /\ dispatches = [i \in 1..(MaxTasks + MaxQueued) |-> 0]
  /\ convlog = [c \in Callers |-> <<>>]
  /\ at_start = [c \in Callers |-> {}]

InitThreads ==
  /\ marking = [w \in Workers |-> None]
  /\ reader = [counts |-> <<>>, statistics |-> None, seen |-> None]

InitDirectory(ds) ==
  /\ directory \in ds
  /\ last_call = None

NoDirectory == [is_dir |-> FALSE, entries |-> <<>>]

InitCli(ws) ==
  cli \in [pc : {"start"}, workers : ws, converter : {"none"},
           exit_code : {None}, printed : {None}]

\* The parts of the state a scenario does not involve.
\* Memory readings around every threshold of the two classifiers.
Percents == {499, 500, 600, 601, 699, 700, 750, 751, 849, 850, 900, 901}
Availables == {2047, 2048, 4095, 4096}
MemoryReadings == [percent : Percents, available : Availables]
QuietMemory == [percent |-> 0, available |-> 8192]
NoSystem == <<>>
NoConfig == Planned("none", FALSE, 0, 0, 0)

InitPressure(vms) == virtual_memory \in vms /\ advice = NoAdvice
InitPlanner(ss) == system \in ss /\ config = NoConfig
InitDetection(hs) == host \in hs /\ detection = NoDetection
InitMonitor(intervals) == monitor \in {NewMonitor(i) : i \in intervals}
InitIdleHost == InitDetection({BareHost("Linux")}) /\ InitMonitor({1})
InitNoPlanning ==
  /\ InitPressure({QuietMemory}) /\ InitPlanner({NoSystem})
  /\ InitIdleHost

InitRest ==
  /\ InitThreads /\ InitDirectory({NoDirectory}) /\ InitCli({1})
  /\ InitNoPlanning

\* The caller queues its files one after the other (at distinct times), each
\* with some priority.
AddTask ==
  /\ Len(task) < MaxTasks
  /\ \E pr \in Priorities, now \in LaterReading : Add(Len(task) + 1, pr, now)
\* Pre-flight validation: before it calls process(), the caller marks a task it
\* rejects as skipped.
SkipTask ==
  /\ \A c \in callers : pc[c] = "idle"
  /\ \E i \in 1..Len(task) : IsPending(i) /\ MarkSkipped(i, "not a pdf")
StartRun == \E c \in callers, cb \in BOOLEAN : Start(c, cb)
SnapshotRun == \E c \in callers : Snapshot(c)
SubmitRun == \E c \in callers : Submit(c)
AsCompletedRun == \E c \in callers : AsCompleted(c)
WorkerStartRun == \E c \in callers : WorkerStart(c)
WorkerFinishRun == \E c \in callers : \E i \in busy[c], o \in ConvertOutcomes :
                     WorkerFinish(c, i, o)
CollectRun == \E c \in callers : \E i \in NextFutures(c), r1, r2 \in BOOLEAN :
                Collect(c, i, r1, r2)
ReturnRun == \E c \in callers : Return(c)
UnwoundRun == \E c \in callers : Unwound(c)

Next ==
  \/ AddTask
  \/ SkipTask
  \/ StartRun
  \/ SnapshotRun
  \/ SubmitRun
  \/ AsCompletedRun
  \/ WorkerStartRun
  \/ WorkerFinishRun
  \/ CollectRun
  \/ ReturnRun
  \/ UnwoundRun

\* One process() call on a queue that other threads may add to.
Init == InitQueue /\ InitProc({"c1"}, 1..MaxWorkers) /\ InitRest
Spec == Init /\ [][Next]_vars

\* The TaskQueue alone, under any sequence of calls by a caller who holds on to
\* the tasks it was given (and queues one file, again and again).
Objects == 1..Len(task)
QueueAdd ==
  /\ Len(task) < MaxQueued
  /\ \E pr \in Priorities, now \in Readings : Add(1, pr, now)
QueueAddMany ==
  /\ Len(task) + 2 <= MaxQueued
  /\ \E pr \in Priorities, t1 \in Readings :
       \E t2 \in {t \in Instants : t >= t1} : AddMany(<<1, 1>>, pr, <<t1, t2>>)
QueueRemove == \E i \in Objects : Remove(i)
QueueClear == _tasks # <<>> /\ Clear
CallMarkStarted == \E i \in Objects : MarkStarted(i)
CallMarkCompleted == \E i \in Objects : MarkCompleted(i)
CallMarkFailed == \E i \in Objects : MarkFailed(i, "boom")
CallMarkSkipped == \E i \in Objects : MarkSkipped(i, "boom")

NextQueue ==
  \/ QueueAdd
  \/ QueueAddMany
  \/ QueueRemove
  \/ QueueClear
  \/ CallMarkStarted
  \/ CallMarkCompleted
  \/ CallMarkFailed
  \/ CallMarkSkipped

InitQueueOnly == InitQueue /\ InitProc({}, {1}) /\ InitRest
SpecQueue == InitQueueOnly /\ [][NextQueue]_vars

\* Two overlapping process() calls (two BatchProcessors of one worker each) on
\* one queue that is filled before the first call; no progress callback is
\* passed.
QueueTask == (\A c \in callers : pc[c] = "idle") /\ AddTask
StartPlain == \E c \in callers : Start(c, FALSE)
CollectPlain == \E c \in callers : \E i \in NextFutures(c) :
                  Collect(c, i, FALSE, FALSE)

NextOverlap ==
  \/ QueueTask
  \/ StartPlain
  \/ SnapshotRun
  \/ SubmitRun
  \/ AsCompletedRun
  \/ WorkerStartRun
  \/ WorkerFinishRun
  \/ CollectPlain
  \/ ReturnRun

InitOverlap == InitQueue /\ InitProc(Callers, {1}) /\ InitRest
SpecOverlap == InitOverlap /\ [][NextOverlap]_vars

\* The queue is filled and worked on (each task started, then completed or
\* failed, or skipped) by two threads while a third reads it.
BeginMarkCall ==
  \E w \in Workers, i \in Objects :
    \E method \in {"mark_started", "mark_completed", "mark_failed", "mark_skipped"} :
      BeginMark(w, i, method)
MarkStepCall == \E w \in Workers : MarkStep(w)
ReadTaskCall == \E i \in Objects : ReadTask(i)

NextThreads ==
  \/ QueueAdd
  \/ BeginMarkCall
  \/ MarkStepCall
  \/ ReadTaskCall
  \/ GetStatisticsStep

SpecThreads == InitQueueOnly /\ [][NextThreads]_vars

\* One caller calls process() on its BatchProcessor again and again, with or
\* without a progress callback, queueing files between the calls.
ProcessAgainRun == \E c \in callers : ProcessAgain(c)

NextRepeat ==
  \/ QueueTask
  \/ StartRun
  \/ SnapshotRun
  \/ SubmitRun
  \/ AsCompletedRun
  \/ WorkerStartRun
  \/ WorkerFinishRun
  \/ CollectRun
  \/ ReturnRun
  \/ UnwoundRun
  \/ ProcessAgainRun

\* A BatchProcessor of one worker.
InitRepeat == InitQueue /\ InitProc({"c1"}, {1}) /\ InitRest
SpecRepeat == InitRepeat /\ [][NextRepeat]_vars

\* add_from_directory() called once, with any arguments, on a queue that is
\* empty or holds one task, for a path that is no directory or a directory with
\* any listing.
PriorFile == Entry("old", "pdf", TRUE, FALSE)
Directories ==
  {NoDirectory}
  \cup {[is_dir |-> TRUE, entries |-> es] : es \in Listings(DirEntries, MaxEntries)}
QueueFirst ==
  /\ _tasks = <<>>
  /\ last_call = None
  /\ \E pr \in Priorities : Add(PriorFile, pr, clock)
AddFromDirectoryCall ==
  \E pattern \in Patterns, recursive \in BOOLEAN, priority \in Priorities :
    \E output_dir \in {None, Some(""), Some("out")} :
      AddFromDirectory(pattern, recursive, output_dir, priority)

NextDirectory ==
  \/ QueueFirst
  \/ AddFromDirectoryCall

InitScan ==
  /\ InitQueue /\ InitProc({}, {1}) /\ InitThreads
  /\ InitDirectory(Directories) /\ InitCli({1})
  /\ InitNoPlanning
SpecDirectory == InitScan /\ [][NextDirectory]_vars

\* The batch command on a directory of up to three files, with any options; the
\* progress callback it passes does not raise.
CliEntries ==
  {Entry("a", "pdf", TRUE, FALSE), Entry("b", "pdf", TRUE, FALSE),
   Entry("x", "txt", TRUE, FALSE)}
CliDirectories ==
  {[is_dir |-> TRUE, entries |-> es] :
     es \in Listings(CliEntries, Cardinality(CliEntries))}
CliWorkers == (0 - 1)..MaxWorkers
CheckDependenciesStep == \E ok \in BOOLEAN : CheckDependencies(ok)
CreateConverterStep == \E ok \in BOOLEAN : CreateConverter(ok)
QueueDirectoryStep ==
  \E pattern \in Patterns, recursive \in BOOLEAN :
    \E output_dir \in {None, Some("out")} :
      QueueDirectory(pattern, recursive, output_dir)

NextCli ==
  \/ CheckDependenciesStep
  \/ CreateConverterStep
  \/ QueueDirectoryStep
  \/ CreateProcessor
  \/ Process
  \/ SnapshotRun
  \/ SubmitRun
  \/ AsCompletedRun
  \/ WorkerStartRun
  \/ WorkerFinishRun
  \/ CollectPlain
  \/ ReturnRun
  \/ Summary
  \/ Crash

InitBatchCommand ==
  /\ InitQueue /\ InitProc({"c1"}, {1}) /\ InitThreads
  /\ InitDirectory(CliDirectories) /\ InitCli(CliWorkers)
  /\ InitNoPlanning
SpecCli == InitBatchCommand /\ [][NextCli]_vars

\* The memory managers, called again and again while the memory in use changes.
GetMemoryPressureCall == \E manager \in Managers : GetMemoryPressure(manager)
RecommendBatchSizeCall == \E b \in 1..MaxBatch : RecommendBatchSize(b)
MemoryChangesStep == \E vm \in MemoryReadings : MemoryChanges(vm)

NextPressure ==
  \/ GetMemoryPressureCall
  \/ RecommendBatchSizeCall
  \/ MemoryChangesStep

InitMemory ==
  /\ InitQueue /\ InitProc({}, {1}) /\ InitThreads
  /\ InitDirectory({NoDirectory}) /\ InitCli({1})
  /\ InitPressure(MemoryReadings) /\ InitPlanner({NoSystem})
  /\ InitIdleHost
SpecPressure == InitMemory /\ [][NextPressure]_vars

\* One process() call, without a progress callback, on a machine under some
\* memory pressure that changes while the batch runs.
ThrottleReadings == [percent : {499, 699, 849, 850}, available : {4096}]
MemoryChangesDuringRun == \E vm \in ThrottleReadings : MemoryChanges(vm)

NextThrottle ==
  \/ QueueTask
  \/ StartPlain
  \/ SnapshotRun
  \/ SubmitRun
  \/ AsCompletedRun
  \/ WorkerStartRun
  \/ WorkerFinishRun
  \/ CollectPlain
  \/ ReturnRun
  \/ MemoryChangesDuringRun

InitThrottle ==
  /\ InitQueue /\ InitProc({"c1"}, 1..MaxWorkers) /\ InitThreads
  /\ InitDirectory({NoDirectory}) /\ InitCli({1})
  /\ InitPressure(ThrottleReadings) /\ InitPlanner({NoSystem})
  /\ InitIdleHost
SpecThrottle == InitThrottle /\ [][NextThrottle]_vars

\* The planners, asked on any machine: core counts from undetected to 40, memory
\* on both sides of every tier, with and without an accelerator.
CpuCounts == {0, 1, 5, 8, 16, 40}
MemoryTotals == {0, 8, 16, 32, 64, 96}
MemoryAvailables == {0, 5000, 12 * MiBPerGiB, 24 * MiBPerGiB, 40 * MiBPerGiB,
                     80 * MiBPerGiB}
Gpu(vendor, memory_mb, cuda, rocm, mps) ==
  [vendor |-> vendor, memory_mb |-> memory_mb, supports_cuda |-> cuda,
   supports_rocm |-> rocm, supports_mps |-> mps]
Gpus ==
  { Gpu("none", 0, FALSE, FALSE, FALSE),
    Gpu("nvidia", 0, TRUE, FALSE, FALSE),
    Gpu("nvidia", 8000, TRUE, FALSE, FALSE),
    Gpu("nvidia", 16000, TRUE, FALSE, FALSE),
    Gpu("amd", 64000, FALSE, TRUE, FALSE),
    Gpu("apple", 16000, FALSE, FALSE, TRUE) }
Hardware ==
  { hw \in [cpu_count : CpuCounts,
            total_mb : {t * MiBPerGiB : t \in MemoryTotals},
            available_mb : MemoryAvailables,
            gpu : Gpus] : hw.available_mb <= hw.total_mb }
WorkerOptions == {None, Some(4)}
BatchSizeOptions == {None, Some(2), Some(4), Some(32)}

GetOptimalConfigCall == \E enable_gpu \in BOOLEAN : GetOptimalConfig(enable_gpu)
ConvertCommand ==
  \E workers \in WorkerOptions, batch_size \in BatchSizeOptions, gpu \in BOOLEAN :
    Convert(workers, batch_size, gpu)

NextPlanner ==
  \/ GetOptimalConfigCall
  \/ GetOptimalWorkers
  \/ GetOptimalBatchSize
  \/ ConvertCommand

InitHardware ==
  /\ InitQueue /\ InitProc({}, {1}) /\ InitThreads
  /\ InitDirectory({NoDirectory}) /\ InitCli({1})
  /\ InitPressure({QuietMemory}) /\ InitPlanner(Hardware)
  /\ InitIdleHost
SpecPlanner == InitHardware /\ [][NextPlanner]_vars

\* Detection on any machine: detectors are created, asked again and again,
\* and the machine changes in between.
Platforms == {"Linux", "Windows", "Darwin"}
Hosts ==
  { h \in [platform : Platforms,
           nvidia_smi : {"missing", "nonzero", "one_field", "bad_memory", "ok"},
           wmic_gpu : {"fail", "no_amd", "amd_one_line", "amd"},
           torch : {"missing", "unavailable", "cuda_none", "rocm", "cuda",
                    "rocm_props_fail", "cuda_props_fail", "cuda_name_fail"},
           sysctl : {"fail", "intel", "apple"},
           wmic_cpu : {"fail", "other", "ai_max"}] :
      /\ h.platform # "Windows" => h.wmic_gpu = "fail" /\ h.wmic_cpu = "fail"
      /\ h.platform # "Darwin" => h.sysctl = "fail" }
Workstation ==
  [cpu_count |-> 8, total_mb |-> 32 * MiBPerGiB, available_mb |-> 12 * MiBPerGiB,
   gpu |-> Gpu("none", 0, FALSE, FALSE, FALSE)]
DetectCall == \E d \in 1..MaxDetectors : Detect(d)

NextDetect ==
  \/ NewDetector
  \/ GetSystemDetector
  \/ DetectCall
  \/ HostChanges

InitDetect ==
  /\ InitQueue /\ InitProc({}, {1}) /\ InitThreads
  /\ InitDirectory({NoDirectory}) /\ InitCli({1})
  /\ InitPressure({QuietMemory}) /\ InitPlanner({Workstation})
  /\ InitDetection(Hosts) /\ InitMonitor({1})
SpecDetect == InitDetect /\ [][NextDetect]_vars

\* A PerformanceMonitor with the default one-second interval or a six-second
\* one, started and stopped by one caller.
Intervals == {1, 6}
Sampler(t) ==
  \/ LoopTest(t)
  \/ Measure(t)
  \/ MeasureFails(t)
  \/ AppendSnapshot(t)
  \/ Wake(t)
SamplerStep == \E t \in 1..MaxStarts : Sampler(t)

NextMonitor ==
  \/ MonitorStart
  \/ MonitorStop
  \/ StopReturns
  \/ SamplerStep
  \/ Tick

InitMonitoring ==
  /\ InitQueue /\ InitProc({}, {1}) /\ InitThreads
  /\ InitDirectory({NoDirectory}) /\ InitCli({1})
  /\ InitPressure({QuietMemory}) /\ InitPlanner({Workstation})
  /\ InitDetection({BareHost("Linux")}) /\ InitMonitor(Intervals)
SpecMonitor == InitMonitoring /\ [][NextMonitor]_vars
\* The samplers are scheduled, joins return and time passes.
SpecMonitorFair ==
  /\ SpecMonitor
  /\ WF_vars(SamplerStep) /\ WF_vars(StopReturns) /\ WF_vars(Tick)

\* ------------------------------------------------------------- claims
\* The process() call the claims of Spec speak of.
Run == "c1"
Finished == pc[Run] = "returned" /\ ret[Run] = "_results"
Dispatched == {i \in 1..Len(task) : dispatches[i] > 0}
ResultsFor(i) == {k \in 1..Len(_results[Run]) : _results[Run][k].task = i}
CallsFor(i) == {k \in 1..Len(calls[Run]) : calls[Run][k].task = i}

\* C1: when process() returns, there is exactly one result per task of the
\* batch; the result of a task whose convert() raised has success=False and the
\* exception's message, and that task is failed with that message; the result of
\* a task whose convert() succeeded has success=True; and the run is left by an
\* exception only when the progress callback raised, never because convert() did.
C1_Isolation ==
  /\ Finished =>
       /\ Len(Returned(Run)) = Len(batch[Run])
       /\ \A i \in SeqSet(batch[Run]) :
            /\ Cardinality(ResultsFor(i)) = 1
            /\ \A k \in ResultsFor(i) :
                 LET r == Returned(Run)[k]
                     o == convlog[Run][i]
                 IN  /\ o.raises => /\ r.success = FALSE
                                    /\ r.error_message = o.error
                                    /\ task[i].status = "failed"
                                    /\ task[i].error_message = o.error
                     /\ (~o.raises /\ o.success) => r.success = TRUE
  /\ pc[Run] \in {"unwind", "raised"} =>
       /\ calls[Run] # <<>>
       /\ calls[Run][Len(calls[Run])].raised

\* C1 witness: a finished run of two tasks, one whose convert() raised and one
\* whose convert() succeeded.
C1_Witness ==
  /\ Finished
  /\ \E i, j \in SeqSet(batch[Run]) :
       /\ convlog[Run][i].raises
       /\ ~convlog[Run][j].raises /\ convlog[Run][j].success

\* C2: no task is started (mark_started, then convert) by more than one worker.
C2_ExactlyOnceDispatch == \A i \in 1..Len(task) : dispatches[i] <= 1

\* C3: get_pending() returns exactly the pending tasks of the queue, each once,
\* by priority descending and, among equal priorities, creation time ascending.
C3_PendingSorted ==
  LET p == get_pending(_tasks)
  IN  /\ SeqSet(p) = {i \in SeqSet(_tasks) : task[i].status = "pending"}
      /\ Len(p) = Cardinality(SeqSet(p))
      /\ \A a, b \in 1..Len(p) :
           a < b => \/ task[p[a]].priority > task[p[b]].priority
                    \/ /\ task[p[a]].priority = task[p[b]].priority
                       /\ task[p[a]].created_at <= task[p[b]].created_at

\* C3 witness: the queue holds two pending tasks that get_pending() returns in
\* another order than they were added in.
C3_Witness ==
  /\ Len(get_pending(_tasks)) >= 2
  /\ get_pending(_tasks) # SelectSeq(_tasks, IsPending)

\* C4: process() never ends with an exception, and when it has returned every
\* task of its batch is completed or failed and has a result in the list.
C4_FullAccounting ==
  /\ pc[Run] # "raised"
  /\ Finished =>
       \A i \in SeqSet(batch[Run]) :
         /\ task[i].status \in {"completed", "failed"}
         /\ ResultsFor(i) # {}

\* C5: a task's status changes only along pending -> running, running ->
\* completed, running -> failed, pending -> skipped.
Transitions ==
  {<<"pending", "running">>, <<"running", "completed">>,
   <<"running", "failed">>, <<"pending", "skipped">>}
C5_StatusStateMachine ==
  [][\A i \in 1..Len(task) :
       \/ task'[i].status = task[i].status
       \/ <<task[i].status, task'[i].status>> \in Transitions]_vars

C7_CallbackOncePerTask ==
  callback[Run] => \A i \in yielded[Run] : Cardinality(CallsFor(i)) = 1

\* C8: after a process() run, get_summary() has total == len(results),
\* successful + failed == total and total_pages == the pages of the successful
\* results.
RECURSIVE PagesOf(_, _)
PagesOf(rs, ks) ==
  IF ks = {} THEN 0
  ELSE LET k == CHOOSE x \in ks : TRUE
       IN  rs[k].pages_converted + PagesOf(rs, ks \ {k})
C9_BoundedConcurrency ==
  /\ Cardinality(busy[Run]) <= max_workers[Run]
  /\ Cardinality({i \in 1..Len(task) : task[i].status = "running"})
       <= max_workers[Run]

\* C9 witness: every worker is busy while a submitted task waits its turn.
C9_Witness ==
  /\ Cardinality(busy[Run]) = max_workers[Run]
  /\ workq[Run] # <<>>

\* C10: only tasks that were pending when process() started are dispatched, and
\* a finished run has dispatched total_tasks tasks.
C10_FixedBatch ==
  /\ Dispatched \subseteq at_start[Run]
  /\ Finished => Cardinality(Dispatched) = total_tasks[Run]

\* C11: within a run the tasks are handed to the workers by priority descending
\* and, among equal priorities, creation time ascending: the batch is submitted
\* in that order, and a task is started only when every task of the batch that
\* goes before it in that order has been picked up by a worker.
Precedes(i, j) ==
  \/ task[i].priority > task[j].priority
  \/ /\ task[i].priority = task[j].priority
     /\ task[i].created_at < task[j].created_at
C11_DispatchOrder ==
  /\ \A a, b \in 1..Len(batch[Run]) :
       a < b => ~Precedes(batch[Run][b], batch[Run][a])
  /\ \A i, j \in SeqSet(batch[Run]) :
       (Precedes(j, i) /\ dispatches[i] > 0) => dispatches[j] > 0

\* C11 witness: of two tasks of the batch the one added later, of the higher
\* priority, has been started while the one added first still waits.
C11_Witness ==
  \E i, j \in SeqSet(batch[Run]) :
    /\ i < j /\ Precedes(j, i)
    /\ dispatches[j] > 0 /\ dispatches[i] = 0

\* C12: the results enter the list in the order in which their tasks finished:
\* each result appended is that of the task that finished first among the
\* finished tasks whose result is not in the list yet.
C12_CompletionOrder ==
  [][Len(_results'[Run]) = Len(_results[Run]) + 1 =>
       _results'[Run][Len(_results'[Run])].task =
         (IF early[Run] # <<>> THEN Head(early[Run]) ELSE Head(doneQ[Run]))]_vars

\* C13: a thread reading the queue while tasks change status never sees a
\* running task without a start time, never sees a failed task without an error
\* message, and never gets from get_statistics() per-status counts that do not
\* add up to the total.
C13_AtomicTransitions ==
  /\ reader.seen # None =>
       LET t == reader.seen[1]
       IN  /\ t.status = "running" => t.started_at # None
           /\ t.status = "failed" => t.error_message # None
  /\ reader.statistics # None =>
       LET n == reader.statistics[1]
       IN  n[2] + n[3] + n[4] + n[5] + n[6] = n[1]

\* C14: when N tasks were added to an empty queue and K of them have been marked
\* completed (the others untouched), get_pending() returns N - K tasks,
\* completed_count is K and the queue still holds all N; a change of a task's
\* status never takes the task out of the queue.
C14_CountingAndRetention ==
  /\ [](((Len(_tasks) = Len(task) /\ SeqSet(_tasks) = Objects
          /\ \A i \in Objects : task[i].status \in {"pending", "completed"}) =>
          LET N == Len(task)
              K == Cardinality({i \in Objects : task[i].status = "completed"})
          IN  /\ Len(get_pending(_tasks)) = N - K
              /\ Len(get_by_status(_tasks, "completed")) = K
              /\ Cardinality(SeqSet(_tasks)) = N))
  /\ [][(Len(task') = Len(task) /\ task' # task) => _tasks' = _tasks]_vars

\* C14 witness: of two tasks added to the empty queue one has been marked
\* completed; both are in the queue.
C14_Witness ==
  /\ Len(task) = 2 /\ _tasks = <<1, 2>>
  /\ \E i, j \in Objects :
       /\ task[i].status = "completed" /\ task[i].error_message = None
       /\ task[j].status = "pending"

\* C15: after any sequence of operations a task has an error message exactly
\* when its status is failed or skipped.
C15_ErrorMessageIffFailed ==
  \A i \in Objects :
    task[i].error_message # None <=> task[i].status \in {"failed", "skipped"}

\* C16: mark_completed, mark_failed or mark_skipped called on a task that is
\* already completed, failed or skipped leaves the task's status, error message
\* and completion time as they are.
Terminal == {"completed", "failed", "skipped"}
C16_TerminalMarkGuarded ==
  [][\A i \in Objects :
       (/\ task[i].status \in Terminal
        /\ \/ MarkCompleted(i)
           \/ MarkFailed(i, "boom")
           \/ MarkSkipped(i, "boom"))
       => /\ task'[i].status = task[i].status
          /\ task'[i].error_message = task[i].error_message
          /\ task'[i].completed_at = task[i].completed_at]_vars

\* C17: when the converter cannot be constructed the command stops there: no
\* task is queued (so none leaves pending), convert() is never called, there is
\* no result, and the command exits with status 1 and the message "Failed to
\* initialize converter", which it prints in no other case.
C17_FailFastInit ==
  /\ cli.converter = "failed" =>
       /\ task = <<>> /\ _tasks = <<>>
       /\ \A i \in DOMAIN dispatches : dispatches[i] = 0
       /\ \A c \in callers :
            pc[c] = "idle" /\ _results[c] = <<>> /\ convlog[c] = <<>>
       /\ cli.pc = "exit" /\ cli.exit_code = Some(1)
       /\ cli.printed = Some("Failed to initialize converter")
  /\ cli.printed = Some("Failed to initialize converter") =>
       cli.converter = "failed"

\* C17 witness: the converter's constructor raised and the command has exited.
C17_Witness == cli.converter = "failed" /\ cli.pc = "exit"

\* C18: with a worker count that is not positive, no task is added to the queue
\* and none is dispatched.
C18_WorkersValidated ==
  cli.workers <= 0 =>
    /\ _tasks = <<>>
    /\ \A i \in DOMAIN dispatches : dispatches[i] = 0

C21_CallbackCounts ==
  callback[Run] =>
    /\ \A k \in 1..Len(calls[Run]) :
         /\ calls[Run][k].current = k
         /\ calls[Run][k].total = total_tasks[Run]
         /\ calls[Run][k].current <= calls[Run][k].total
    /\ Finished =>
         /\ Len(calls[Run]) = Len(batch[Run])
         /\ Len(calls[Run]) = total_tasks[Run]

\* C22: when a process() call has returned, get_summary().total is the length of
\* the list that call returned (zero when it returned the empty list), and
\* get_results() has that length too.
C22_SummaryOfLastBatch ==
  pc[Run] = "returned" =>
    /\ get_summary(_results[Run]).total = Len(Returned(Run))
    /\ Len(_results[Run]) = Len(Returned(Run))

\* The classification of a reading by used percentage and available memory.
Classified(vm) ==
  IF vm.percent > 900 \/ vm.available < 2048 THEN "critical"
  ELSE IF vm.percent > 750 \/ vm.available < 4096 THEN "high"
  ELSE IF vm.percent > 600 THEN "medium"
  ELSE "low"

\* C23: whichever memory manager is asked, the pressure it reports for a reading
\* is critical if used% > 90 or available < 2 GiB; otherwise high if used% > 75
\* or available < 4 GiB; otherwise medium if used% > 60; otherwise low.
C23_PressureThresholds ==
  advice.call = "get_memory_pressure" => advice.pressure = Classified(advice.vm)

\* C24: recommend_batch_size(b), b >= 1, returns max(1, b // 4) under critical
\* pressure, max(2, b // 2) under high pressure and b under medium or low
\* pressure.
C24_Recommendation ==
  advice.call = "recommend_batch_size" =>
    LET b == advice.current_batch_size
        p == Classified(advice.vm)
    IN  /\ p = "critical" => advice.new_size = Max(1, b \div 4)
        /\ p = "high" => advice.new_size = Max(2, b \div 2)
        /\ p \in {"medium", "low"} => advice.new_size = b

\* Batch size 1 under high pressure: the floor of 2 applies.
C24_Witness ==
  /\ advice.call = "recommend_batch_size"
  /\ advice.current_batch_size = 1
  /\ Classified(advice.vm) = "high"
  /\ advice.new_size = 2

\* C25: for the batch size of a recommend_batch_size() call, the size
\* recommended under any pressure at least as severe as the call's is no larger
\* than the size the call returned.
Severity(p) == CHOOSE k \in 1..Len(Pressures) : Pressures[k] = p
C25_RecommendationMonotone ==
  advice.call = "recommend_batch_size" =>
    \A k \in Severity(advice.pressure)..Len(Pressures) :
      new_size(Pressures[k], advice.current_batch_size) <= advice.new_size

\* C26: the tasks of a batch running at any moment are at most the throttled
\* worker count: 1 under critical memory pressure, max(1, max_workers // 2)
\* under high pressure, max_workers otherwise; that count lies in
\* [1, max_workers].
C26_WorkersThrottled ==
  LET n == actual_workers(MemoryManager_get_memory_pressure(virtual_memory),
                          max_workers[Run])
  IN  /\ n \in 1..max_workers[Run]
      /\ Cardinality(busy[Run]) <= n

\* C27: whatever the machine, zero detected cores or zero memory included, a
\* planner's worker count lies in [1, 16] and a planner's batch size is at
\* least 4.
C27_PlannerBounds ==
  /\ config.call \in {"get_optimal_config", "get_optimal_workers"} =>
       config.max_workers \in 1..16
  /\ config.call \in {"get_optimal_config", "get_optimal_batch_size"} =>
       config.ocr_batch_size >= 4

\* C28: a derived configuration, from get_optimal_config() or built by the
\* convert command, has table_batch_size == max(batch_size // 4, 2), which is
\* at least 1.
C28_TableBatchSize ==
  config.call \in {"get_optimal_config", "convert"} =>
    /\ config.table_batch_size = Max(config.ocr_batch_size \div 4, 2)
    /\ config.table_batch_size >= 1

\* C29: the batch size get_optimal_config() plans without the GPU is at most
\* the one it plans with the GPU on the same machine.
C29_GpuBatchNotSmaller ==
  config.call = "get_optimal_config" /\ ~config.enable_gpu =>
    config.ocr_batch_size <=
      calculate_optimal_batch_size(_detect_system(system), config.max_workers, TRUE)

\* The CPU plan reaches the GPU plan's batch size.
C29_Witness ==
  /\ config.call = "get_optimal_config"
  /\ ~config.enable_gpu
  /\ config.ocr_batch_size = 64
  /\ calculate_optimal_batch_size(_detect_system(system), config.max_workers, TRUE) = 64

\* The machines whose detected profile has the same accelerator and at least
\* the cores, the total and the available memory of hw's; cores(h) is the
\* physical core count of the profile the planner detects on h.
AtLeast(hw, cores(_)) ==
  { h \in Hardware : /\ h.gpu = hw.gpu
                     /\ cores(h) >= cores(hw)
                     /\ h.total_mb >= hw.total_mb
                     /\ h.available_mb >= hw.available_mb }
SystemSpecCores(h) == _detect_system(h).physical_cores
CapabilitiesCores(h) == detect(h).cpu.cores_physical

\* C30: what a planner returned for a machine is at most what it returns,
\* with the same GPU setting, for any profile with at least the physical
\* cores, the total and the available memory; and no batch size exceeds 128.
C30_PlannerMonotone ==
  /\ config.ocr_batch_size <= 128
  /\ config.call = "get_optimal_config" =>
       \A h \in AtLeast(system, SystemSpecCores) :
         LET c == get_optimal_config(_detect_system(h), config.enable_gpu)
         IN  /\ config.max_workers <= c.max_workers
             /\ config.ocr_batch_size <= c.ocr_batch_size
  /\ config.call = "get_optimal_workers" =>
       \A h \in AtLeast(system, CapabilitiesCores) :
         config.max_workers <= get_optimal_workers(detect(h))
  /\ config.call = "get_optimal_batch_size" =>
       \A h \in AtLeast(system, CapabilitiesCores) :
         config.ocr_batch_size <= get_optimal_batch_size(detect(h))

\* A CPU-only plan on 5 cores, which 16 cores improve on.
C30_Witness ==
  /\ config.call = "get_optimal_batch_size"
  /\ system.cpu_count = 5 /\ system.gpu.vendor = "none"
  /\ config.ocr_batch_size = 4
  /\ \E h \in AtLeast(system, CapabilitiesCores) :
       get_optimal_batch_size(detect(h)) = 16

\* C35: in one process() run, a task whose convert() is in flight is running; a
\* task is started by at most one worker and its convert() outcome is recorded
\* once; when its future is finished the task is completed if its result's
\* success flag is true and failed otherwise, with the result's error message, or
\* "Unknown error" when the result has none.
C35_WorkerProtocol ==
  /\ \A i \in busy[Run] : task[i].status = "running" /\ i \notin DOMAIN fresult[Run]
  /\ \A i \in DOMAIN fresult[Run] :
       LET r == fresult[Run][i] IN
       /\ dispatches[i] = 1
       /\ i \in DOMAIN convlog[Run]
       /\ r.success <=> task[i].status = "completed"
       /\ ~r.success <=> task[i].status = "failed"
       /\ ~r.success =>
            task[i].error_message =
              IF r.error_message = None THEN Some("Unknown error")
              ELSE r.error_message

\* A result that failed without a message: the task says "Unknown error".
C35_Witness ==
  \E i \in DOMAIN fresult[Run] :
    /\ ~fresult[Run][i].success
    /\ fresult[Run][i].error_message = None
    /\ task[i].status = "failed"
    /\ task[i].error_message = Some("Unknown error")

\* C37: over any sequence of process() calls made one after the other, with
\* tasks queued only between calls, a task is started (and converted) at most
\* once; when a call has ended no task is pending; and a call that finds no
\* pending task returns the empty list at once, with no convert() call and no
\* progress-callback invocation.
C37_ConvertedAtMostOnce ==
  /\ [](\A i \in 1..Len(task) : dispatches[i] <= 1)
  /\ [](pc[Run] \in {"returned", "raised"} => pending_count(_tasks) = 0)
  /\ [][(pc[Run] = "idle" /\ pc'[Run] # "idle" /\ pending_count(_tasks) = 0) =>
          /\ pc'[Run] = "returned"
          /\ ret'[Run] = "empty"
          /\ UNCHANGED <<calls, dispatches, convlog, workq, busy, task>>]_vars

\* A second call returned the empty list after the first converted a task.
C37_Witness ==
  /\ pc[Run] = "returned"
  /\ ret[Run] = "empty"
  /\ \E i \in 1..Len(task) : dispatches[i] = 1

\* C38: once process() has returned its result list (ret = "_results": the list
\* object the caller now holds is self._results), no later step changes the
\* contents of that list.
C38_ReturnedListUnchanged ==
  [][ret[Run] = "_results" => _results'[Run] = _results[Run]]_vars

\* C36: get_optimal_workers() is physical_cores scaled by the memory tier (x1.5
\* from 64 GiB, x1.0 from 32 GiB, x0.75 from 16 GiB, x0.5 below), then, with an
\* accelerator, by 1.0 to 1.2, the 1.2 only from 32 GiB on (1.0 below), and
\* clamped to [1, 16].
Clamped(w) == Max(1, Min(w, 16))
C36_WorkerCount ==
  config.call = "get_optimal_workers" =>
    LET caps == detect(system)
        total_mb == caps.memory.total_mb
        cores == caps.cpu.cores_physical
        tiered == IF total_mb >= 64 * 1024 THEN (cores * 3) \div 2
                  ELSE IF total_mb >= 32 * 1024 THEN cores
                  ELSE IF total_mb >= 16 * 1024 THEN (cores * 3) \div 4
                  ELSE cores \div 2
    IN  IF caps.gpu.vendor = "none" \/ total_mb < 32 * 1024
          THEN config.max_workers = Clamped(tiered)
          ELSE config.max_workers \in Clamped(tiered)..Clamped((tiered * 6) \div 5)

\* C31: on one detector the probes run once, on the first detect() call; every
\* detect() call of that detector returns the same capabilities, whatever the
\* machine has become; and every get_system_detector() call returns the same
\* detector.
C31_DetectMemoized ==
  /\ \A d \in 1..Len(detection.detectors) :
       /\ detection.probed[d] <= 1
       /\ detection.probed[d] = 1 <=>
            \E k \in 1..Len(detection.returned) : detection.returned[k].detector = d
  /\ \A j, k \in 1..Len(detection.returned) :
       detection.returned[j].detector = detection.returned[k].detector =>
         detection.returned[j].value = detection.returned[k].value
  /\ \A j, k \in 1..Len(detection.got) : detection.got[j] = detection.got[k]

\* The global detector was asked twice, the second time on a changed machine
\* where the probes would find something else.
C31_Witness ==
  /\ Len(detection.got) >= 2
  /\ \E j, k \in 1..Len(detection.returned) :
       /\ j < k
       /\ detection.returned[j].detector = detection.got[1]
       /\ detection.returned[k].detector = detection.got[1]
       /\ detection.returned[k].value # Probed
       /\ detection.returned[k].value.gpu.vendor # "none"

\* An accelerator probe of the machine succeeded: it ran to its end and
\* reported a device.
Succeeded(h) ==
  \/ h.nvidia_smi = "ok"
  \/ h.platform = "Windows" /\ h.wmic_gpu = "amd"
  \/ h.torch \in {"rocm", "cuda"}
  \/ h.platform = "Darwin" /\ h.sysctl = "apple"
  \/ h.platform = "Windows" /\ h.wmic_cpu = "ai_max"

\* C32: however the accelerator probes end (tool missing, error exit,
\* unparsable output, exception part-way), a detect() call that probes returns
\* a profile, and when no probe of the machine succeeded its accelerator vendor
\* is "none".
C32_ProbeFailuresTolerated ==
  \A d \in 1..Len(detection.detectors) :
    detection.probed[d] >= 1 =>
      /\ detection.detectors[d] # None
      /\ ~Succeeded(detection.seen[d][1]) =>
           detection.detectors[d][1].gpu.vendor = "none"

\* C40: a GPUInfo with vendor "none" that detect() returned has every other
\* field at its default: model "No GPU detected", no memory_mb, no CUDA, ROCm
\* or MPS support.
C40_NoPartialResult ==
  \A k \in 1..Len(detection.returned) :
    detection.returned[k].value.gpu.vendor = "none" =>
      detection.returned[k].value.gpu = NoGpu

\* The sampler threads that have not ended.
Alive == {t \in 1..Len(monitor.threads) : monitor.threads[t].pc # "done"}

\* C33: once the stop() that joined a sampler thread has returned, that thread
\* has ended, and no snapshot in the list was appended by a thread whose stop()
\* had returned.
C33_StopWaitsForSampler ==
  /\ \A t \in 1..Len(monitor.threads) :
       monitor.threads[t].joined => t \notin Alive
  /\ \A k \in 1..Len(monitor.snapshots) : ~monitor.snapshots[k].after_stop

\* C34: the snapshots are in the order of their timestamps, and two snapshots
\* are at least one sampling interval apart.
C34_OnePerIntervalInOrder ==
  \A j, k \in 1..Len(monitor.snapshots) :
    j < k =>
      /\ monitor.snapshots[j].timestamp < monitor.snapshots[k].timestamp
      /\ monitor.snapshots[k].at - monitor.snapshots[j].at >= monitor.sample_interval

\* C39: at most one sampler thread of the monitor is alive at any time.
C39_OneSampler == Cardinality(Alive) <= 1

====
